---- MODULE Spec2Model ----
(***************************************************************************)
(* Model of the silence/voice segmentation of inrk0613/mutest:             *)
(*   src/src/lib.rs  find_voiced_segments  (the full pipeline)             *)
(*   src/lib.rs      analyze               (the embedding-style stub)      *)
(*                                                                         *)
(* Conventions                                                             *)
(*  - All float inputs are modelled by integers and every quotient is the  *)
(*    exact rational one (f64 rounding error is not modelled).             *)
(*  - Times are kept in MILLISECONDS: the code's                           *)
(*    `chunk as f64 * (chunk_size_ms / 1000.0)` seconds is modelled as     *)
(*    chunk * chunk_size_ms milliseconds.                                  *)
(*  - usize is a machine word of UsizeBits bits (scaled down from the 32   *)
(*    bits of wasm32).  A Vec<f64> of T volumes needs 8*T bytes, which     *)
(*    must fit isize, so T <= 2^(UsizeBits-4); MaxLen respects that.       *)
(*  - Samples are amplitudes 0 (digital silence) or 1 (full scale).        *)
(*  - Tuples <<a, b>> model Rust pairs (a, b): t[1] is t.0, t[2] is t.1.   *)
(***************************************************************************)
EXTENDS Integers, Sequences, FiniteSets

\* ------------------------------------------------------------------ bounds
MaxLen == 10
UsizeBits == 8

RECURSIVE Pow(_, _)
Pow(b, n) == IF n = 0 THEN 1 ELSE b * Pow(b, n - 1)

USIZE_MAX == Pow(2, UsizeBits) - 1

\* ------------------------------------------------------------------ inputs
SampleRates == {-100, 50, 100, 150}
ChunkSizesMs == {-10, 0, 10, 20}
MinSilenceMs == {-10, 0, 30, 50}
PaddingsMs == {-10, 0, 10, 20, 10 * (USIZE_MAX - 1), 20 * (USIZE_MAX + 1)}
ThresholdsDb == {-40}
Amplitudes == {0, 1}

\* ------------------------------------------------------- numeric helpers
Min(a, b) == IF a <= b THEN a ELSE b
Max(a, b) == IF a >= b THEN a ELSE b

\* floor(a / b), ceil(a / b) and the truncation of a / b, for b # 0
FloorDiv(a, b) == IF b > 0 THEN a \div b ELSE (-a) \div (-b)
CeilDiv(a, b) == -FloorDiv(-a, b)
TruncDiv(a, b) == IF (a >= 0) = (b > 0) THEN FloorDiv(a, b) ELSE CeilDiv(a, b)

\* Rust `x as usize` for a float x: saturates at 0 and at usize::MAX
AsUsize(x) == IF x < 0 THEN 0 ELSE IF x > USIZE_MAX THEN USIZE_MAX ELSE x

\* usize::saturating_sub
SaturatingSub(a, b) == IF a >= b THEN a - b ELSE 0

\* usize `+` without overflow checks: wraps modulo 2^UsizeBits
WrappingAdd(a, b) == (a + b) % (USIZE_MAX + 1)

\* ------------------------------------------------------------ the stages
\* (chunk_size_ms / 1000.0 * sample_rate) as usize
ChunkSizeSamples(cs, sr) == AsUsize(TruncDiv(cs * sr, 1000))

\* (min_silence_duration_ms / chunk_size_ms).ceil() as usize
MinSilenceChunks(msd, cs) == AsUsize(CeilDiv(msd, cs))

\* (padding_ms / chunk_size_ms).floor() as usize
PaddingChunks(pad, cs) == AsUsize(FloorDiv(pad, cs))

\* number of chunks of audio_data.chunks(c), c >= 1
NumChunks(len, c) == CeilDiv(len, c)

\* the i-th chunk (1-based) of data.chunks(c); the last one may be shorter
Chunk(data, c, i) == SubSeq(data, (i - 1) * c + 1, Min(i * c, Len(data)))

RECURSIVE SumSquares(_)
SumSquares(chunk) ==
  IF chunk = <<>> THEN 0
  ELSE Head(chunk) * Head(chunk) + SumSquares(Tail(chunk))

\* The loudness of a chunk.  dbfs = 20*log10(sqrt(sum_squares / len)) is kept
\* as the mean square <<sum_squares, len>>; an all-zero chunk has mean square
\* 0 (dbfs = -inf).
Volume(chunk) == <<SumSquares(chunk), Len(chunk)>>

Volumes(data, c) == [i \in 1..NumChunks(Len(data), c) |-> Volume(Chunk(data, c, i))]

\* db < threshold_db, for threshold_db <= 0 a multiple of 10:
\* 10*log10(ss/n) < th  <=>  ss * 10^(-th/10) < n
IsSilent(vol, th) == vol[1] * Pow(10, (-th) \div 10) < vol[2]

\* Run extraction: the loop over volumes and the trailing push
RECURSIVE ExtractFrom(_, _, _, _, _)
ExtractFrom(vols, th, i, cur, ranges) ==
  IF i > Len(vols) THEN
    IF cur # <<>> THEN Append(ranges, <<cur[1], Len(vols)>>) ELSE ranges
  ELSE IF IsSilent(vols[i], th) THEN
    ExtractFrom(vols, th, i + 1, IF cur = <<>> THEN <<i - 1>> ELSE cur, ranges)
  ELSE
    ExtractFrom(vols, th, i + 1, <<>>,
                IF cur # <<>> THEN Append(ranges, <<cur[1], i - 1>>) ELSE ranges)

SilentRanges(vols, th) == ExtractFrom(vols, th, 1, <<>>, <<>>)

\* (end + padding_chunks).min(volumes.len()), the sum already wrapped
PaddedEnd(sum, total) == Min(sum, total)

\* MergeRun with the overlap test dropped: every retained run is pushed
MergeRunAlwaysPush(merged, ps, pe) == Append(merged, <<ps, pe>>)

\* the `if let Some(last) ... last.1 = padded_end ... else push` of the merge
MergeRun(merged, ps, pe) ==
  IF merged # <<>> /\ ps <= merged[Len(merged)][2]
  THEN [merged EXCEPT ![Len(merged)] = <<merged[Len(merged)][1], pe>>]
  ELSE Append(merged, <<ps, pe>>)

TimeRange(s, e, cs) == [start |-> s * cs, end |-> e * cs]

\* Inversion: the loop over merged_silent_ranges and the trailing push
RECURSIVE InvertFrom(_, _, _, _, _, _)
InvertFrom(merged, total, cs, j, last_end_chunk, voiced) ==
  IF j > Len(merged) THEN
    IF last_end_chunk < total
    THEN Append(voiced, TimeRange(last_end_chunk, total, cs))
    ELSE voiced
  ELSE
    InvertFrom(merged, total, cs, j + 1, merged[j][2],
               IF merged[j][1] > last_end_chunk
               THEN Append(voiced, TimeRange(last_end_chunk, merged[j][1], cs))
               ELSE voiced)

VoicedSegments(merged, total, cs) == InvertFrom(merged, total, cs, 1, 0, <<>>)

\* the dummy result of analyze, [[0.5, 4.2], [5.1, 10.8]] seconds
DummyIntervals == <<[start |-> 500, end |-> 4200], [start |-> 5100, end |-> 10800]>>

\* ------------------------------------------------------------------ state
VARIABLES
  data_len, sample_rate, threshold_db, chunk_size_ms,
  min_silence_duration_ms, padding_ms,      \* the arguments
  audio_data,                               \* the samples behind the pointer
  call,                                     \* which entry point was called
  pc,                                       \* position inside the call
  chunk_size_samples, volumes, silent_ranges,
  min_silence_chunks, padding_chunks,
  next_range,                               \* index of the run the merge loop visits next
  padded,                                   \* <<padded_start, padded_end>> when the run just visited was retained
  merged_silent_ranges,
  result                                    \* what the caller receives

vars == <<data_len, sample_rate, threshold_db, chunk_size_ms,
          min_silence_duration_ms, padding_ms, audio_data, call, pc,
          chunk_size_samples, volumes, silent_ranges, min_silence_chunks,
          padding_chunks, next_range, padded, merged_silent_ranges, result>>

args == <<data_len, sample_rate, threshold_db, chunk_size_ms,
          min_silence_duration_ms, padding_ms>>

NoResult == [kind |-> "none", intervals |-> <<>>]
Returned(list) == [kind |-> "ok", intervals |-> list]
Panicked == [kind |-> "panic", intervals |-> <<>>]

Init ==
  /\ data_len \in 0..MaxLen
  /\ sample_rate \in SampleRates
  /\ threshold_db \in ThresholdsDb
  /\ chunk_size_ms \in ChunkSizesMs
  /\ min_silence_duration_ms \in MinSilenceMs
  /\ padding_ms \in PaddingsMs
  /\ audio_data = <<>>
  /\ call = "none"
  /\ pc = "start"
  /\ chunk_size_samples = 0
  /\ volumes = <<>>
  /\ silent_ranges = <<>>
  /\ min_silence_chunks = 0
  /\ padding_chunks = 0
  /\ next_range = 1
  /\ padded = <<>>
  /\ merged_silent_ranges = <<>>
  /\ result = NoResult

\* find_voiced_segments, lines 43-57: the slice, the chunk size, the early
\* return of "[]" and the volume loop.  The samples are drawn where they are
\* read, in the volume loop.
CallFindVoicedSegments ==
  /\ pc = "start"
  /\ call' = "find_voiced_segments"
  /\ chunk_size_samples' = ChunkSizeSamples(chunk_size_ms, sample_rate)
  /\ IF chunk_size_samples' = 0
     THEN /\ result' = Returned(<<>>)
          /\ pc' = "done"
          /\ UNCHANGED <<audio_data, volumes>>
     ELSE /\ \E data \in [1..data_len -> Amplitudes] :
               /\ audio_data' = data
               /\ volumes' = Volumes(data, chunk_size_samples')
          /\ pc' = "extract"
          /\ result' = result
  /\ UNCHANGED <<args, silent_ranges, min_silence_chunks, padding_chunks,
                 next_range, padded, merged_silent_ranges>>

\* lines 59-79: run extraction and the two chunk counts
ExtractRuns ==
  /\ pc = "extract"
  /\ silent_ranges' = SilentRanges(volumes, threshold_db)
  /\ min_silence_chunks' = MinSilenceChunks(min_silence_duration_ms, chunk_size_ms)
  /\ padding_chunks' = PaddingChunks(padding_ms, chunk_size_ms)
  /\ pc' = "merge"
  /\ UNCHANGED <<args, audio_data, call, chunk_size_samples, volumes,
                 next_range, padded, merged_silent_ranges, result>>

\* lines 82-96: one iteration of the filter / pad / merge loop.  `end +
\* padding_chunks` is a plain usize addition: when it exceeds usize::MAX a
\* build with overflow checks panics and a build without them wraps.
MergeStep ==
  /\ pc = "merge"
  /\ next_range <= Len(silent_ranges)
  /\ LET start == silent_ranges[next_range][1]
         end == silent_ranges[next_range][2]
         duration == end - start
     IN IF duration >= min_silence_chunks
        THEN \/ /\ padded' = <<SaturatingSub(start, padding_chunks),
                               PaddedEnd(WrappingAdd(end, padding_chunks), Len(volumes))>>
                /\ merged_silent_ranges' =
                     MergeRun(merged_silent_ranges, padded'[1], padded'[2])
                /\ next_range' = next_range + 1
                /\ UNCHANGED <<pc, result>>
             \/ /\ end + padding_chunks > USIZE_MAX
                /\ result' = Panicked
                /\ pc' = "done"
                /\ padded' = <<>>
                /\ UNCHANGED <<merged_silent_ranges, next_range>>
        ELSE /\ next_range' = next_range + 1
             /\ padded' = <<>>
             /\ UNCHANGED <<merged_silent_ranges, pc, result>>
  /\ UNCHANGED <<args, audio_data, call, chunk_size_samples, volumes,
                 silent_ranges, min_silence_chunks, padding_chunks>>

\* lines 98-122: inversion, conversion to time, serialisation
Invert ==
  /\ pc = "merge"
  /\ next_range > Len(silent_ranges)
  /\ result' = Returned(VoicedSegments(merged_silent_ranges, Len(volumes), chunk_size_ms))
  /\ pc' = "done"
  /\ UNCHANGED <<args, audio_data, call, chunk_size_samples, volumes,
                 silent_ranges, min_silence_chunks, padding_chunks,
                 next_range, padded, merged_silent_ranges>>

\* analyze (src/lib.rs): sample_rate is a u32; slice::chunks panics on a
\* chunk size of 0; otherwise the dummy result is returned, whatever the
\* samples are
CallAnalyze ==
  /\ pc = "start"
  /\ sample_rate >= 0
  /\ call' = "analyze"
  /\ chunk_size_samples' = ChunkSizeSamples(chunk_size_ms, sample_rate)
  /\ result' = IF chunk_size_samples' = 0 THEN Panicked ELSE Returned(DummyIntervals)
  /\ pc' = "done"
  /\ UNCHANGED <<args, audio_data, volumes, silent_ranges, min_silence_chunks,
                 padding_chunks, next_range, padded, merged_silent_ranges>>

Next ==
  \/ CallFindVoicedSegments
  \/ ExtractRuns
  \/ MergeStep
  \/ Invert
  \/ CallAnalyze

Spec == Init /\ [][Next]_vars

\* ---------------------------------------------------- reading the outcome
\* find_voiced_segments ran its whole pipeline and returned an interval list
Listed ==
  /\ call = "find_voiced_segments"
  /\ pc = "done"
  /\ result.kind = "ok"
  /\ chunk_size_samples >= 1

\* the settings and buffer that section 6 of the specification accepts
ValidInput ==
  /\ data_len > 0
  /\ sample_rate > 0
  /\ chunk_size_ms > 0
  /\ min_silence_duration_ms >= 0
  /\ padding_ms >= 0

total_chunks == Len(volumes)

\* the chunk index a returned time stands for (times are chunk * chunk_size_ms)
ChunkIndex(t) == FloorDiv(t, chunk_size_ms)

InVoiced(c) ==
  \E i \in DOMAIN result.intervals :
    /\ ChunkIndex(result.intervals[i].start) <= c
    /\ c < ChunkIndex(result.intervals[i].end)

InRetainedSilence(c) ==
  \E k \in DOMAIN merged_silent_ranges :
    merged_silent_ranges[k][1] <= c /\ c < merged_silent_ranges[k][2]

CoverCount(c) ==
  Cardinality({i \in DOMAIN result.intervals :
                 /\ ChunkIndex(result.intervals[i].start) <= c
                 /\ c < ChunkIndex(result.intervals[i].end)})
  + Cardinality({k \in DOMAIN merged_silent_ranges :
                 merged_silent_ranges[k][1] <= c /\ c < merged_silent_ranges[k][2]})

\* The staged pipeline of section 4.4 of the specification: filter every run,
\* pad every survivor (start saturating at 0, end capped at the chunk count),
\* merge in ascending order taking the maximum of the two ends.
IsLongEnough(r) == r[2] - r[1] >= min_silence_chunks
StagedFilter(runs) == SelectSeq(runs, IsLongEnough)
StagedPad(runs) ==
  [k \in DOMAIN runs |-> <<Max(runs[k][1] - padding_chunks, 0),
                           Min(runs[k][2] + padding_chunks, total_chunks)>>]

RECURSIVE StagedMergeFrom(_, _, _)
StagedMergeFrom(runs, k, acc) ==
  IF k > Len(runs) THEN acc
  ELSE IF acc # <<>> /\ runs[k][1] <= acc[Len(acc)][2]
  THEN StagedMergeFrom(runs, k + 1,
         [acc EXCEPT ![Len(acc)] = <<acc[Len(acc)][1], Max(acc[Len(acc)][2], runs[k][2])>>])
  ELSE StagedMergeFrom(runs, k + 1, Append(acc, runs[k]))

StagedPipeline == StagedMergeFrom(StagedPad(StagedFilter(silent_ranges)), 1, <<>>)

\* ------------------------------------------------------------- the claims

\* C1: for every call whose chunk size resolves to at least 1 sample, the
\* returned intervals are strictly ascending and non-overlapping: each has
\* start < end and ends no later than the next one starts.
C1_OrderedIntervals ==
  Listed =>
    \A i \in DOMAIN result.intervals :
      /\ result.intervals[i].start < result.intervals[i].end
      /\ i < Len(result.intervals) =>
           result.intervals[i].end <= result.intervals[i + 1].start

\* C2: coverage.  Every chunk index of [0, T) lies in exactly one returned
\* voiced interval or in exactly one retained (filtered, padded, merged)
\* silent run: no gap and no overlap.
C2_Coverage ==
  Listed => \A c \in 0..(total_chunks - 1) : CoverCount(c) = 1

\* C2 witness: a call that returned at least two voiced intervals around at
\* least two retained silent runs.
C2_Witness ==
  /\ Listed
  /\ Len(result.intervals) >= 2
  /\ Len(merged_silent_ranges) >= 2

\* C3: every returned interval lies within [0, data_len / sample_rate]
\* seconds, also with a partial tail chunk and with a chunk size whose
\* sample count is not an integer (end_ms / 1000 <= data_len / sample_rate).
C3_WithinBuffer ==
  (Listed /\ ValidInput) =>
    \A i \in DOMAIN result.intervals :
      /\ 0 <= result.intervals[i].start
      /\ result.intervals[i].end * sample_rate <= 1000 * data_len

\* C4: when chunk_size_samples resolves to 0 the call fails with
\* InvalidConfiguration: no panic, no interval list.
C4_ZeroChunkSizeRejected ==
  (pc = "done" /\ chunk_size_samples = 0) => result.kind = "InvalidConfiguration"

\* C5: an empty buffer, a negative min_silence_duration or a negative
\* padding makes the call fail with an error instead of returning a list.
C5_InvalidInputRejected ==
  (/\ call = "find_voiced_segments"
   /\ pc = "done"
   /\ chunk_size_ms > 0
   /\ sample_rate > 0
   /\ chunk_size_samples >= 1
   /\ (data_len = 0 \/ min_silence_duration_ms < 0 \/ padding_ms < 0))
  => result.kind \in {"EmptyInput", "InvalidConfiguration"}

\* C6: minimum-duration filter.  A maximal silent run shorter than
\* min_silence_chunks is discarded: each of its chunks is voiced unless the
\* padding of a retained run swallowed it.  A maximal silent run of at least
\* min_silence_chunks is retained: none of its chunks is voiced.
C6_MinDurationFilter ==
  (Listed /\ ValidInput) =>
    \A k \in DOMAIN silent_ranges :
      \A c \in silent_ranges[k][1]..(silent_ranges[k][2] - 1) :
        IF IsLongEnough(silent_ranges[k])
        THEN ~InVoiced(c)
        ELSE InVoiced(c) \/ InRetainedSilence(c)

\* C7: overlap merge.  When a retained run's padded start is <= the end of
\* the previous accepted run, the accepted run's end becomes the maximum of
\* the two ends; otherwise a new run is started.
C7_MergeTakesMax ==
  [][(/\ pc = "merge"
      /\ ValidInput
      /\ padded' # <<>>
      /\ merged_silent_ranges # <<>>)
     => LET n == Len(merged_silent_ranges)
            last == merged_silent_ranges[n]
        IN IF padded'[1] <= last[2]
           THEN merged_silent_ranges' =
                  [merged_silent_ranges EXCEPT ![n] = <<last[1], Max(last[2], padded'[2])>>]
           ELSE merged_silent_ranges' = Append(merged_silent_ranges, padded')]_vars

\* C8: boundary clamping.  For every retained run [start, end) and every
\* padding_chunks, 0 <= padded_start <= start and end <= padded_end <= T,
\* and the computation neither overflows nor wraps.
C8_PaddingClamped ==
  /\ (call = "find_voiced_segments" /\ ValidInput) => result.kind # "panic"
  /\ (pc = "merge" /\ ValidInput /\ padded # <<>>) =>
       /\ 0 <= padded[1]
       /\ padded[1] <= silent_ranges[next_range - 1][1]
       /\ silent_ranges[next_range - 1][2] <= padded[2]
       /\ padded[2] <= total_chunks

\* C9: when every sample is zero and min_silence_duration is at most the
\* buffer's duration the result is the empty list, for every valid chunk
\* size, padding and length; when no chunk is silent the result is the
\* single interval [0, T).
C9_AllSilentIsEmpty ==
  (Listed /\ ValidInput) =>
    /\ ((\A s \in DOMAIN audio_data : audio_data[s] = 0)
        /\ min_silence_duration_ms * sample_rate <= 1000 * data_len)
       => result.intervals = <<>>
    /\ silent_ranges = <<>> =>
         result.intervals = <<TimeRange(0, total_chunks, chunk_size_ms)>>

\* C10: the single-pass loop (overwrite on merge) ends with the same silent
\* run list as the staged pipeline (filter all, pad all, merge with max),
\* for every verdict sequence, min_silence_chunks and padding_chunks.
C10_SinglePassIsStaged ==
  (Listed /\ ValidInput) => merged_silent_ranges = StagedPipeline

====
